---------------------------- MODULE Spec2Model ----------------------------
(***************************************************************************)
(* Geo-bucket property search: the bucket store, the location index, the   *)
(* member (Property) store, bucket assignment (find_or_create_bucket),     *)
(* the denormalised member counter and the matching cascade.               *)
(*                                                                         *)
(* Strings are sequences of one-character strings, so that normalisation,  *)
(* trigram generation, the phonetic code and the edit distance are         *)
(* computed character by character as the Python code computes them.       *)
(***************************************************************************)
EXTENDS Integers, Sequences, FiniteSets, TLC

(***************************************************************************)
(* Characters and elementary string functions (Python str methods).        *)
(***************************************************************************)
LowerAlpha ==
    <<"a","b","c","d","e","f","g","h","i","j","k","l","m",
      "n","o","p","q","r","s","t","u","v","w","x","y","z">>

UpperAlpha ==
    <<"A","B","C","D","E","F","G","H","I","J","K","L","M",
      "N","O","P","Q","R","S","T","U","V","W","X","Y","Z">>

DigitChars == {"0","1","2","3","4","5","6","7","8","9"}

Range(s) == {s[i] : i \in 1..Len(s)}

LowerChars == Range(LowerAlpha)

UpperChars == Range(UpperAlpha)

\* str.lower() on one character.
LowerIdentity(c) == c

Lower(c) ==
    IF c \in UpperChars
    THEN LowerAlpha[CHOOSE i \in 1..26 : UpperAlpha[i] = c]
    ELSE c

\* str.upper() on one character.
Upper(c) ==
    IF c \in LowerChars
    THEN UpperAlpha[CHOOSE i \in 1..26 : LowerAlpha[i] = c]
    ELSE c

LowerStr(s) == [i \in 1..Len(s) |-> Lower(s[i])]

UpperStr(s) == [i \in 1..Len(s) |-> Upper(s[i])]

\* The regular expression class \s, restricted to the blank.
IsSpace(c) == c = " "

RECURSIVE LStrip(_)
LStrip(s) ==
    IF s # <<>> /\ IsSpace(Head(s)) THEN LStrip(Tail(s)) ELSE s

RECURSIVE RStrip(_)
RStrip(s) ==
    IF s # <<>> /\ IsSpace(s[Len(s)])
    THEN RStrip(SubSeq(s, 1, Len(s) - 1))
    ELSE s

\* str.strip()
Strip(s) == LStrip(RStrip(s))

\* re.sub(r'[^a-z0-9\s]', ' ', s)
RemoveSpecial(s) ==
    [i \in 1..Len(s) |->
        IF s[i] \in LowerChars \/ s[i] \in DigitChars \/ IsSpace(s[i])
        THEN s[i] ELSE " "]

\* re.sub(r'\s+', ' ', s)
RECURSIVE CollapseSpaces(_)
CollapseSpaces(s) ==
    IF Len(s) < 2 THEN s
    ELSE IF IsSpace(s[1]) /\ IsSpace(s[2])
         THEN CollapseSpaces(Tail(s))
         ELSE <<s[1]>> \o CollapseSpaces(Tail(s))

\* The first word of s (s has no leading blank) and what follows it.
RECURSIVE WordLen(_)
WordLen(s) ==
    IF s = <<>> \/ IsSpace(Head(s)) THEN 0 ELSE 1 + WordLen(Tail(s))

\* str.split(): the words of s, split at runs of blanks.
RECURSIVE Split(_)
Split(s) ==
    LET t == LStrip(s)
    IN  IF t = <<>> THEN <<>>
        ELSE LET n == WordLen(t)
             IN  <<SubSeq(t, 1, n)>> \o Split(SubSeq(t, n + 1, Len(t)))

\* ' '.join(words)
RECURSIVE Join(_)
Join(words) ==
    IF words = <<>> THEN <<>>
    ELSE IF Len(words) = 1 THEN words[1]
    ELSE words[1] \o <<" ">> \o Join(Tail(words))

\* s.startswith(p)
StartsWith(s, p) == Len(p) <= Len(s) /\ SubSeq(s, 1, Len(p)) = p

\* p in s (substring test)
Contains(s, p) ==
    \E i \in 1..(Len(s) - Len(p) + 1) : SubSeq(s, i, i + Len(p) - 1) = p

\* s.replace(old, new): left to right, non-overlapping occurrences.
RECURSIVE Replace(_, _, _)
Replace(s, old, new) ==
    IF s = <<>> THEN <<>>
    ELSE IF StartsWith(s, old)
         THEN new \o Replace(SubSeq(s, Len(old) + 1, Len(s)), old, new)
         ELSE <<Head(s)>> \o Replace(Tail(s), old, new)

\* s[:n]
Prefix(s, n) == SubSeq(s, 1, IF Len(s) < n THEN Len(s) ELSE n)

(***************************************************************************)
(* LocationNormalizer                                                      *)
(***************************************************************************)
COMMON_SUFFIXES ==
    { <<"l","a","g","o","s">>, <<"n","i","g","e","r","i","a">>, <<"n","g">>,
      <<"l","g","a">>, <<"s","t","a","t","e">>, <<"a","r","e","a">> }

\* The dict REPLACEMENTS in its insertion order: str, rd, ave, st.
REPLACEMENTS ==
    << <<  <<"s","t","r">>, <<"s","t","r","e","e","t">>  >>,
       <<  <<"r","d">>,     <<"r","o","a","d">>  >>,
       <<  <<"a","v","e">>, <<"a","v","e","n","u","e">>  >>,
       <<  <<"s","t">>,     <<"s","t","r","e","e","t">>  >> >>

\* for old, new in REPLACEMENTS.items():
\*     normalized = normalized.replace(f' {old} ', f' {new} ')
RECURSIVE ApplyReplacements(_, _)
ApplyReplacements(s, k) ==
    IF k > Len(REPLACEMENTS) THEN s
    ELSE ApplyReplacements(
            Replace(s, <<" ">> \o REPLACEMENTS[k][1] \o <<" ">>,
                       <<" ">> \o REPLACEMENTS[k][2] \o <<" ">>),
            k + 1)

NotSuffix(w) == w \notin COMMON_SUFFIXES

Normalize(name) ==
    IF name = <<>> THEN <<>>
    ELSE
      LET lowered   == Strip(LowerStr(name))
          collapsed == CollapseSpaces(RemoveSpecial(lowered))
          words     == Split(collapsed)
          filtered  == SelectSeq(words, NotSuffix)
          kept      == IF filtered = <<>> THEN Prefix(words, 2) ELSE filtered
      IN  Strip(ApplyReplacements(Join(kept), 1))

\* generate_trigrams: the list of 3-character windows of the text without
\* blanks; empty when the text (blanks included) is shorter than 3.
IsNotSpace(c) == ~IsSpace(c)

GenerateTrigrams(text) ==
    IF Len(text) < 3 THEN <<>>
    ELSE LET t == SelectSeq(LowerStr(text), IsNotSpace)
         IN  IF Len(t) < 3 THEN <<>>
             ELSE [i \in 1..(Len(t) - 2) |-> SubSeq(t, i, i + 2)]

Vowels == {"A","E","I","O","U"}

IsNotVowel(c) == c \notin Vowels

\* re.sub(r'(.)\1+', r'\1', s)
RECURSIVE CollapseRuns(_)
CollapseRuns(s) ==
    IF Len(s) < 2 THEN s
    ELSE IF s[1] = s[2] THEN CollapseRuns(Tail(s))
         ELSE <<s[1]>> \o CollapseRuns(Tail(s))

PHONETIC ==
    << << <<"P","H">>, <<"F">> >>, << <<"C","K">>, <<"K">> >>,
       << <<"S","H">>, <<"X">> >>, << <<"C","H">>, <<"X">> >> >>

RECURSIVE ApplyPhonetic(_, _)
ApplyPhonetic(s, k) ==
    IF k > Len(PHONETIC) THEN s
    ELSE ApplyPhonetic(Replace(s, PHONETIC[k][1], PHONETIC[k][2]), k + 1)

MetaphoneLimit == 10

MetaphoneSimple(text) ==
    IF text = <<>> THEN <<>>
    ELSE
      LET up     == UpperStr(text)
          result == IF Len(up) > 1
                    THEN <<up[1]>> \o SelectSeq(Tail(up), IsNotVowel)
                    ELSE up
      IN  Prefix(ApplyPhonetic(CollapseRuns(result), 1), MetaphoneLimit)

\* calculate_similarity(str1, str2) >= num/den, the Jaccard index of the
\* trigram sets compared without floating point.
SimilarityAtLeast(str1, str2, num, den) ==
    IF str1 = <<>> \/ str2 = <<>> THEN FALSE
    ELSE
      LET t1 == Range(GenerateTrigrams(str1))
          t2 == Range(GenerateTrigrams(str2))
      IN  IF t1 = {} \/ t2 = {}
          THEN LowerStr(str1) = LowerStr(str2)
          ELSE den * Cardinality(t1 \cap t2) >= num * Cardinality(t1 \cup t2)

\* Levenshtein.distance(a, b), by rows of the dynamic-programming table.
Min2(x, y) == IF x < y THEN x ELSE y

RECURSIVE LevRow(_, _, _, _, _)
\* The cells j..Len(b) of the row for character ch, given the previous row
\* prev (indexed 1..Len(b)+1) and the cell left of j.
LevRow(ch, b, prev, left, j) ==
    IF j > Len(b) THEN <<>>
    ELSE LET cost == IF b[j] = ch THEN 0 ELSE 1
             v    == Min2(Min2(prev[j + 1] + 1, left + 1), prev[j] + cost)
         IN  <<v>> \o LevRow(ch, b, prev, v, j + 1)

RECURSIVE LevRows(_, _, _, _)
LevRows(a, b, prev, i) ==
    IF i > Len(a) THEN prev
    ELSE LevRows(a, b, <<i>> \o LevRow(a[i], b, prev, i, 1), i + 1)

Levenshtein(a, b) ==
    LET row0 == [j \in 1..(Len(b) + 1) |-> j - 1]
    IN  LevRows(a, b, row0, 1)[Len(b) + 1]

(***************************************************************************)
(* Spatial indexer: the h3 grid.  A coordinate is a pair of integers (in   *)
(* degrees for the region check); a cell is a hexagon of the axial grid    *)
(* that holds CellSpan x CellSpan coordinates.                             *)
(***************************************************************************)
CellSpan == 2

\* BucketService.calculate_h3_index
CellOf(lat, lng) == <<lat \div CellSpan, lng \div CellSpan>>

\* grid_disk(cell, 2) in place of grid_disk(cell, 1).
Ring2(cell) ==
    { <<cell[1] + dq, cell[2] + dr>> : dq \in -2..2, dr \in -2..2 }

\* BucketService.get_h3_neighbors: grid_disk(cell, 1), the cell and its six
\* neighbours.
Ring1(cell) ==
    { <<cell[1] + d[1], cell[2] + d[2]>> :
        d \in { <<0,0>>, <<1,0>>, <<-1,0>>, <<0,1>>, <<0,-1>>, <<1,-1>>, <<-1,1>> } }

\* BucketService.h3_to_coordinates: the centre <<lat, lng>> of the cell.
H3ToCoordinates(cell) ==
    << ((2 * cell[1] + 1) * CellSpan) \div 2,
       ((2 * cell[2] + 1) * CellSpan) \div 2 >>

\* Optional[float] = None
None == -999

(***************************************************************************)
(* Bounds and input sets                                                   *)
(***************************************************************************)
NumWorkers == 2

\* Requests accepted in the concurrent specification.
MaxRequests == 3

\* Members created in the sequential specification.
MaxMembers == 2

Workers == 1..NumWorkers

Ajah == <<"A","j","a","h">>

Lekki == <<"L","e","k","k","i">>

Ikeja == <<"I","k","e","j","a">>

Sangotedo == <<"S","a","n","g","o","t","e","d","o">>

SangotedoAjah == <<"S","a","n","g","o","t","e","d","o",","," ","A","j","a","h">>

SangotedoLagos == <<"s","a","n","g","o","t","e","d","o"," ","l","a","g","o","s">>

\* Raw names of the concurrent specification.
Names == {Ajah, Lekki, Ikeja}

\* Raw names of the sequential specification; the empty name is allowed.
SeqNames == {<<>>, Ajah}

\* The name and the coordinate of the members that the sequential
\* specification stores directly, with a bucket of any cell or none.
MemberNames == {Ajah}

MemberCoords == { <<6, 4>> }

\* Coordinates <<lat, lng>>: the first two fall into the same cell.
Coords == { <<6, 4>>, <<7, 5>>, <<8, 4>> }

\* Coordinates of the concurrent specification, in two cells.
ConcCoords == { <<6, 4>>, <<8, 4>> }

(***************************************************************************)
(* State                                                                   *)
(***************************************************************************)
VARIABLES
    buckets,        \* table geo_buckets: row id |-> row (ids are 1..Len)
    locationIndex,  \* table location_index, in insertion order
    properties,     \* table properties: pk |-> row, with a deleted mark
    pc,             \* per worker: the statement it executes next
    req,            \* per worker: the arguments of the running operation
    obj,            \* per worker: the in-memory GeoBucket object (bucket)
    oldObj,         \* per worker: the in-memory old_bucket of Property.save
    calls,          \* history: the find_or_create_bucket calls that returned
    errors,         \* history: the exceptions that reached a caller
    counterLog,     \* history: per bucket, increment calls minus decrement calls
    underflow,      \* history: a decrement was called at true count 0
    search,         \* the last find_matching_buckets call and its outcome
    served,         \* the number of requests accepted so far
    stats           \* the last get_bucket_stats call and its outcome

vars == <<buckets, locationIndex, properties, pc, req, obj, oldObj,
          calls, errors, counterLog, underflow, search, served, stats>>

NoObj == [id |-> 0, variant_names |-> <<>>, property_count |-> 0]

NoReq == [kind |-> "none", lat |-> 0, lng |-> 0, name |-> <<>>,
          member |-> 0, target |-> 0]

NoSearch == [done |-> FALSE]

NoStats == [done |-> FALSE]

BucketIds == 1..Len(buckets)

\* A GeoBucket instance as a query returns it: a copy of the row.
Snapshot(id) ==
    IF id = 0 THEN NoObj
    ELSE [id |-> id,
          variant_names |-> buckets[id].variant_names,
          property_count |-> buckets[id].property_count]

Init ==
    /\ buckets = <<>>
    /\ locationIndex = <<>>
    /\ properties = <<>>
    /\ pc = [w \in Workers |-> "idle"]
    /\ req = [w \in Workers |-> NoReq]
    /\ obj = [w \in Workers |-> NoObj]
    /\ oldObj = [w \in Workers |-> NoObj]
    /\ calls = {}
    /\ errors = {}
    /\ counterLog = <<>>
    /\ underflow = FALSE
    /\ search = NoSearch
    /\ served = 0
    /\ stats = NoStats

Idle(w) == pc[w] = "idle"

AllIdle == \A w \in Workers : Idle(w)

\* The operation of worker w ends: its objects go out of scope.
Finish(w) ==
    /\ pc' = [pc EXCEPT ![w] = "idle"]
    /\ req' = [req EXCEPT ![w] = NoReq]
    /\ obj' = [obj EXCEPT ![w] = NoObj]
    /\ oldObj' = [oldObj EXCEPT ![w] = NoObj]

Goto(w, label) == pc' = [pc EXCEPT ![w] = label]

(***************************************************************************)
(* BucketService.find_or_create_bucket                                     *)
(***************************************************************************)
\* h3_index = models.CharField(unique=True): an insert of a second row for
\* the cell violates the constraint.
NoConstraint(h3) == FALSE

\* A location_index where every pair counts as present: nothing is inserted.
AlwaysIndexed(name, b) == TRUE

\* A location_index without the unique_together constraint and without the
\* exists() test.
NoIndexConstraint(name, b) == FALSE

H3Taken(h3) == \E b \in BucketIds : buckets[b].h3_index = h3

\* unique_together = ['original_name', 'bucket'] of location_index.
IndexTaken(name, b) ==
    \E i \in 1..Len(locationIndex) :
        /\ locationIndex[i].original_name = name
        /\ locationIndex[i].bucket = b

\* GeoBucket.objects.filter(h3_index=h3_index).first(): 0 when there is none.
FirstByCell(h3) ==
    LET rows == {b \in BucketIds : buckets[b].h3_index = h3}
    IN  IF rows = {} THEN 0
        ELSE CHOOSE b \in rows : \A c \in rows : b <= c

InSeq(x, s) == \E i \in 1..Len(s) : s[i] = x

\* variant_names=[location_name] if location_name else []
FirstVariants(name) == IF name # <<>> THEN <<name>> ELSE <<>>

\* The call returns bucket b: the caller goes on with it.
Returned(w, b) ==
    /\ calls' = calls \cup
          {[h3 |-> CellOf(req[w].lat, req[w].lng), name |-> req[w].name,
            bucket |-> b]}
    /\ IF req[w].kind = "create"
       THEN /\ Goto(w, "prop_insert")
            /\ obj' = [obj EXCEPT ![w] = Snapshot(b)]
            /\ UNCHANGED <<req, oldObj>>
       ELSE IF req[w].kind = "update"
       THEN /\ Goto(w, "read_old")
            /\ obj' = [obj EXCEPT ![w] = Snapshot(b)]
            /\ UNCHANGED <<req, oldObj>>
       ELSE Finish(w)

\* An IntegrityError leaves find_or_create_bucket and its caller.
Raise(w, table) ==
    /\ errors' = errors \cup
          {[error |-> "IntegrityError", table |-> table]}
    /\ Finish(w)

StartAssign(w, names, coords) ==
    /\ Idle(w)
    /\ search = NoSearch
    /\ \E c \in coords, n \in names :
          req' = [req EXCEPT ![w] =
                    [NoReq EXCEPT !.kind = "assign", !.lat = c[1],
                                  !.lng = c[2], !.name = n]]
    /\ Goto(w, "lookup")
    /\ UNCHANGED <<buckets, locationIndex, properties, obj, oldObj, calls,
                   errors, counterLog, underflow, search, stats>>

\* bucket = GeoBucket.objects.filter(h3_index=h3_index).first()
Lookup(w) ==
    /\ pc[w] = "lookup"
    /\ LET b == FirstByCell(CellOf(req[w].lat, req[w].lng))
       IN  /\ obj' = [obj EXCEPT ![w] = Snapshot(b)]
           /\ Goto(w, IF b # 0 THEN "add_variant" ELSE "create_bucket")
    /\ UNCHANGED <<buckets, locationIndex, properties, req, oldObj, calls,
                   errors, counterLog, underflow, search, stats, served>>

\* GeoBucket.add_variant_name: the test reads the object, save() writes the
\* object's whole list to the row.
AddVariant(w) ==
    /\ pc[w] = "add_variant"
    /\ LET name == req[w].name
           o    == obj[w]
       IN  IF name # <<>> /\ ~InSeq(name, o.variant_names)
           THEN LET vs == Append(o.variant_names, name)
                IN  /\ obj' = [obj EXCEPT ![w].variant_names = vs]
                    /\ buckets' = [buckets EXCEPT ![o.id].variant_names = vs]
           ELSE UNCHANGED <<obj, buckets>>
    /\ Goto(w, "index_exists")
    /\ UNCHANGED <<locationIndex, properties, req, oldObj, calls, errors,
                   counterLog, underflow, search, stats, served>>

\* GeoBucket.objects.create(...): the insert fails when the cell has a row.
CreateBucket(w) ==
    /\ pc[w] = "create_bucket"
    /\ LET h3 == CellOf(req[w].lat, req[w].lng)
       IN  IF H3Taken(h3)
           THEN /\ Raise(w, "geo_buckets")
                /\ UNCHANGED <<buckets, counterLog>>
           ELSE /\ buckets' = Append(buckets,
                      [h3_index |-> h3,
                       centroid |-> H3ToCoordinates(h3),
                       normalized_name |-> Normalize(req[w].name),
                       variant_names |-> FirstVariants(req[w].name),
                       property_count |-> 0])
                /\ counterLog' = Append(counterLog, 0)
                /\ obj' = [obj EXCEPT ![w] =
                      [id |-> Len(buckets) + 1,
                       variant_names |-> FirstVariants(req[w].name),
                       property_count |-> 0]]
                /\ Goto(w, "index_exists")
                /\ UNCHANGED <<req, oldObj, errors>>
    /\ UNCHANGED <<locationIndex, properties, calls, underflow, search, stats, served>>

\* exists = LocationIndex.objects.filter(...).exists(); if exists: return
IndexExists(w) ==
    /\ pc[w] = "index_exists"
    /\ IF IndexTaken(req[w].name, obj[w].id)
       THEN Returned(w, obj[w].id)
       ELSE /\ Goto(w, "index_create")
            /\ UNCHANGED <<req, obj, oldObj, calls>>
    /\ UNCHANGED <<buckets, locationIndex, properties, errors, counterLog,
                   underflow, search, stats, served>>

\* LocationIndex.objects.create(...)
IndexCreate(w) ==
    /\ pc[w] = "index_create"
    /\ LET nn == Normalize(req[w].name)
       IN  IF IndexTaken(req[w].name, obj[w].id)
           THEN /\ Raise(w, "location_index")
                /\ UNCHANGED <<locationIndex, calls>>
           ELSE /\ locationIndex' = Append(locationIndex,
                      [original_name |-> req[w].name,
                       normalized_name |-> nn,
                       bucket |-> obj[w].id,
                       metaphone |-> MetaphoneSimple(nn),
                       trigrams |-> GenerateTrigrams(nn)])
                /\ Returned(w, obj[w].id)
                /\ UNCHANGED errors
    /\ UNCHANGED <<buckets, properties, counterLog, underflow, search, stats, served>>

(***************************************************************************)
(* GeoBucket counter methods and Property.save / Property.delete           *)
(***************************************************************************)
\* models.F('property_count') + 1, evaluated by the store on the row.
SameCount(c) == c

Incremented(c) == c + 1

\* models.F('property_count') - 1
Decremented(c) == c - 1

\* if self.property_count > 0: the test reads the object, not the row.
DecrementGuard(o) == o.property_count > 0

\* An increment_property_count call on bucket b completes.
LogInc(b) == counterLog' = [counterLog EXCEPT ![b] = @ + 1]

\* A decrement_property_count call on bucket b completes; the history notes
\* whether it was called when every earlier increment was already undone.
LogDec(b) ==
    /\ counterLog' = [counterLog EXCEPT ![b] = @ - 1]
    /\ underflow' = (underflow \/ counterLog[b] <= 0)

\* GeoBucket.increment_property_count on the object o; the object is
\* refreshed from the row, which nothing reads afterwards.
IncrementRow(o) ==
    /\ buckets' = [buckets EXCEPT ![o.id].property_count = Incremented(@)]
    /\ LogInc(o.id)
    /\ UNCHANGED underflow

\* GeoBucket.decrement_property_count on the object o.
DecrementRow(o) ==
    /\ IF DecrementGuard(o)
       THEN buckets' = [buckets EXCEPT ![o.id].property_count = Decremented(@)]
       ELSE UNCHANGED buckets
    /\ LogDec(o.id)

Exists(m) == m \in 1..Len(properties) /\ ~properties[m].deleted

\* serializer.create: find_or_create_bucket, then Property.objects.create.
StartCreate(w, names, coords) ==
    /\ Idle(w)
    /\ search = NoSearch
    /\ \E c \in coords, n \in names :
          req' = [req EXCEPT ![w] =
                    [NoReq EXCEPT !.kind = "create", !.lat = c[1],
                                  !.lng = c[2], !.name = n]]
    /\ Goto(w, "lookup")
    /\ UNCHANGED <<buckets, locationIndex, properties, obj, oldObj, calls,
                   errors, counterLog, underflow, search, stats>>

\* A validation that accepts every coordinate.
AnyLatLng(lat, lng) == TRUE

\* PropertySerializer.validate
ValidLatLng(lat, lng) ==
    /\ ~(lat < -90 \/ lat > 90)
    /\ ~(lng < -180 \/ lng > 180)

\* serializer.update with lat and lng: find_or_create_bucket, then
\* instance.bucket = bucket and instance.save().
StartUpdate(w, names, coords) ==
    /\ Idle(w)
    /\ search = NoSearch
    /\ \E m \in 1..Len(properties), c \in coords, n \in names :
          /\ Exists(m)
          /\ req' = [req EXCEPT ![w] =
                       [NoReq EXCEPT !.kind = "update", !.member = m,
                                     !.lat = c[1], !.lng = c[2], !.name = n]]
    /\ Goto(w, "lookup")
    /\ UNCHANGED <<buckets, locationIndex, properties, obj, oldObj, calls,
                   errors, counterLog, underflow, search, stats>>

\* serializer.update without lat or lng, with a location_name: the bucket
\* stays, setattr(instance, 'location_name', value) and instance.save().
StartRename(w, names) ==
    /\ Idle(w)
    /\ search = NoSearch
    /\ \E m \in 1..Len(properties), n \in names :
          /\ Exists(m)
          /\ req' = [req EXCEPT ![w] =
                       [NoReq EXCEPT !.kind = "save", !.member = m,
                                     !.name = n,
                                     !.lat = properties[m].lat,
                                     !.lng = properties[m].lng]]
          /\ obj' = [obj EXCEPT ![w] = Snapshot(properties[m].bucket)]
    /\ Goto(w, "read_old")
    /\ UNCHANGED <<buckets, locationIndex, properties, oldObj, calls,
                   errors, counterLog, underflow, search, stats>>

\* serializer.is_valid raises ValidationError: the request ends before
\* create or update is called.
Invalid(coords) ==
    /\ \E c \in coords :
          /\ ~ValidLatLng(c[1], c[2])
          /\ errors' = errors \cup
                {[error |-> "ValidationError", lat |-> c[1], lng |-> c[2]]}
    /\ UNCHANGED <<buckets, locationIndex, properties, pc, req, obj, oldObj,
                   calls, counterLog, underflow, search, stats, served>>

\* Property.objects.create(bucket=b) or Property.objects.create() without a
\* bucket (b = 0), with a bucket object just fetched.
StartSaveNew(w, names, coords) ==
    /\ Idle(w)
    /\ search = NoSearch
    /\ Len(properties) < MaxMembers
    /\ \E c \in coords, n \in names, b \in BucketIds \cup {0} :
          /\ req' = [req EXCEPT ![w] =
                       [NoReq EXCEPT !.kind = "save_new", !.lat = c[1],
                                     !.lng = c[2], !.name = n]]
          /\ obj' = [obj EXCEPT ![w] = Snapshot(b)]
    /\ Goto(w, "prop_insert")
    /\ UNCHANGED <<buckets, locationIndex, properties, oldObj, calls,
                   errors, counterLog, underflow, search, stats>>

\* prop.bucket = b (or None); prop.save() on a stored member.
StartSave(w) ==
    /\ Idle(w)
    /\ search = NoSearch
    /\ \E m \in 1..Len(properties), b \in BucketIds \cup {0} :
          /\ Exists(m)
          /\ req' = [req EXCEPT ![w] =
                       [NoReq EXCEPT !.kind = "save", !.member = m,
                                     !.name = properties[m].location_name,
                                     !.lat = properties[m].lat,
                                     !.lng = properties[m].lng]]
          /\ obj' = [obj EXCEPT ![w] = Snapshot(b)]
    /\ Goto(w, "read_old")
    /\ UNCHANGED <<buckets, locationIndex, properties, oldObj, calls,
                   errors, counterLog, underflow, search, stats>>

\* prop.delete() on a member fetched with its bucket.
StartDelete(w) ==
    /\ Idle(w)
    /\ search = NoSearch
    /\ \E m \in 1..Len(properties) :
          /\ Exists(m)
          /\ req' = [req EXCEPT ![w] =
                       [NoReq EXCEPT !.kind = "delete", !.member = m]]
          /\ obj' = [obj EXCEPT ![w] = Snapshot(properties[m].bucket)]
    /\ Goto(w, "decr")
    /\ UNCHANGED <<buckets, locationIndex, properties, oldObj, calls,
                   errors, counterLog, underflow, search, stats>>

\* Property.save, is_new: super().save() inserts the row.
PropInsert(w) ==
    /\ pc[w] = "prop_insert"
    /\ properties' = Append(properties,
          [location_name |-> req[w].name, lat |-> req[w].lat,
           lng |-> req[w].lng, bucket |-> obj[w].id, deleted |-> FALSE])
    /\ IF obj[w].id # 0
       THEN /\ Goto(w, "incr")
            /\ req' = [req EXCEPT ![w].member = Len(properties) + 1]
            /\ UNCHANGED <<obj, oldObj>>
       ELSE Finish(w)
    /\ UNCHANGED <<buckets, locationIndex, calls, errors, counterLog,
                   underflow, search, stats, served>>

\* self.bucket.increment_property_count(), the last statement of save().
Incr(w) ==
    /\ pc[w] = "incr"
    /\ IncrementRow(obj[w])
    /\ Finish(w)
    /\ UNCHANGED <<locationIndex, properties, calls, errors, search, stats, served>>

\* old_property = Property.objects.filter(pk=self.pk).first()
ReadOld(w) ==
    /\ pc[w] = "read_old"
    /\ req' = [req EXCEPT ![w].target =
                  IF Exists(req[w].member)
                  THEN properties[req[w].member].bucket ELSE 0]
    /\ Goto(w, "prop_update")
    /\ UNCHANGED <<buckets, locationIndex, properties, obj, oldObj, calls,
                   errors, counterLog, underflow, search, stats, served>>

\* Property.save, not is_new: super().save() writes the row (and inserts it
\* again when it is gone).
PropUpdate(w) ==
    /\ pc[w] = "prop_update"
    /\ properties' = [properties EXCEPT ![req[w].member] =
          [@ EXCEPT !.location_name = req[w].name, !.lat = req[w].lat,
                    !.lng = req[w].lng, !.bucket = obj[w].id,
                    !.deleted = FALSE]]
    /\ IF req[w].target # obj[w].id
       THEN IF req[w].target # 0
            THEN /\ Goto(w, "get_old")
                 /\ UNCHANGED <<req, obj, oldObj>>
            ELSE /\ Goto(w, "incr")
                 /\ UNCHANGED <<req, obj, oldObj>>
       ELSE Finish(w)
    /\ UNCHANGED <<buckets, locationIndex, calls, errors, counterLog,
                   underflow, search, stats, served>>

\* old_bucket = GeoBucket.objects.get(pk=old_bucket_id)
GetOld(w) ==
    /\ pc[w] = "get_old"
    /\ oldObj' = [oldObj EXCEPT ![w] = Snapshot(req[w].target)]
    /\ Goto(w, "decr_old")
    /\ UNCHANGED <<buckets, locationIndex, properties, req, obj, calls,
                   errors, counterLog, underflow, search, stats, served>>

\* old_bucket.decrement_property_count()
DecrOld(w) ==
    /\ pc[w] = "decr_old"
    /\ DecrementRow(oldObj[w])
    /\ IF obj[w].id # 0
       THEN /\ Goto(w, "incr")
            /\ UNCHANGED <<req, obj, oldObj>>
       ELSE Finish(w)
    /\ UNCHANGED <<locationIndex, properties, calls, errors, search, stats, served>>

\* Property.delete: if self.bucket: self.bucket.decrement_property_count()
Decr(w) ==
    /\ pc[w] = "decr"
    /\ IF obj[w].id # 0
       THEN DecrementRow(obj[w])
       ELSE UNCHANGED <<buckets, counterLog, underflow>>
    /\ Goto(w, "prop_delete")
    /\ UNCHANGED <<locationIndex, properties, req, obj, oldObj, calls,
                   errors, search, stats, served>>

\* super().delete()
PropDelete(w) ==
    /\ pc[w] = "prop_delete"
    /\ properties' = [properties EXCEPT ![req[w].member].deleted = TRUE]
    /\ Finish(w)
    /\ UNCHANGED <<buckets, locationIndex, calls, errors, counterLog,
                   underflow, search, stats, served>>

(***************************************************************************)
(* LocationMatcher                                                         *)
(***************************************************************************)
CharOrder ==
    <<" ","0","1","2","3","4","5","6","7","8","9">> \o LowerAlpha \o UpperAlpha

CharRank(c) == CHOOSE i \in 1..Len(CharOrder) : CharOrder[i] = c

RECURSIVE StrLess(_, _)
StrLess(a, b) ==
    IF b = <<>> THEN FALSE
    ELSE IF a = <<>> THEN TRUE
    ELSE IF Head(a) = Head(b) THEN StrLess(Tail(a), Tail(b))
    ELSE CharRank(Head(a)) < CharRank(Head(b))

\* GeoBucket.Meta.ordering = ['-property_count', 'normalized_name']; rows
\* that tie come in the order of their ids.
BucketBefore(a, b) ==
    \/ buckets[a].property_count > buckets[b].property_count
    \/ /\ buckets[a].property_count = buckets[b].property_count
       /\ \/ StrLess(buckets[a].normalized_name, buckets[b].normalized_name)
          \/ /\ buckets[a].normalized_name = buckets[b].normalized_name
             /\ a < b

\* The rows of a GeoBucket queryset, in the default ordering.
RECURSIVE Ordered(_)
Ordered(S) ==
    IF S = {} THEN <<>>
    ELSE LET first == CHOOSE a \in S : \A b \in S \ {a} : BucketBefore(a, b)
         IN  <<first>> \o Ordered(S \ {first})

\* A region check that accepts every coordinate.
AnyCoords(lat, lng) == TRUE

\* _validate_coords
ValidateCoords(lat, lng) ==
    /\ 4 <= lat /\ lat <= 14
    /\ 3 <= lng /\ lng <= 15

\* ACCEPTABLE_MATCH_THRESHOLD = 0.6 and GOOD_MATCH_THRESHOLD = 0.8
GoodOnly(a, b) == SimilarityAtLeast(a, b, 4, 5)

Acceptable(a, b) == SimilarityAtLeast(a, b, 3, 5)

Good(a, b) == SimilarityAtLeast(a, b, 4, 5)

MAX_LEVENSHTEIN_DISTANCE == 2

\* Layer 1 without its query.
NoExact(ns) == <<>>

\* _exact_name_match: normalized_name__iexact
ExactNameMatch(ns) ==
    Ordered({b \in BucketIds :
                LowerStr(buckets[b].normalized_name) = LowerStr(ns)})

\* _is_name_match
IsNameMatch(search_name, bucket_name) ==
    \/ search_name = bucket_name
    \/ Contains(bucket_name, search_name)
    \/ Contains(search_name, bucket_name)
    \/ Good(search_name, bucket_name)

\* _check_variant_names
CheckVariantNames(search_name, variant_names) ==
    \E i \in 1..Len(variant_names) :
        IsNameMatch(search_name, Normalize(variant_names[i]))

\* _spatial_name_match
SpatialNameMatch(ns, lat, lng) ==
    LET cells == Ring1(CellOf(lat, lng))
    IN  Ordered({b \in BucketIds :
                    /\ buckets[b].h3_index \in cells
                    /\ \/ IsNameMatch(ns, buckets[b].normalized_name)
                       \/ CheckVariantNames(ns, buckets[b].variant_names)})

\* The distance test with the threshold lowered by one.
WithinOne(a, b) == Levenshtein(a, b) <= MAX_LEVENSHTEIN_DISTANCE - 1

\* Method 1: distance <= cls.MAX_LEVENSHTEIN_DISTANCE
WithinDistance(a, b) == Levenshtein(a, b) <= MAX_LEVENSHTEIN_DISTANCE

\* Method 2: the owners of the index entries whose normalized_name contains
\* the first three characters of the query (icontains) and is similar enough.
KeepTrigram(ns, e) ==
    /\ Contains(LowerStr(e.normalized_name), LowerStr(Prefix(ns, 3)))
    /\ Acceptable(ns, e.normalized_name)

RECURSIVE TrigramOwners(_, _)
TrigramOwners(ns, i) ==
    IF i > Len(locationIndex) THEN <<>>
    ELSE (IF KeepTrigram(ns, locationIndex[i])
          THEN <<locationIndex[i].bucket>> ELSE <<>>)
         \o TrigramOwners(ns, i + 1)

\* Method 3: the owners of the index entries with the query's phonetic code.
RECURSIVE PhoneticOwners(_, _)
PhoneticOwners(code, i) ==
    IF i > Len(locationIndex) THEN <<>>
    ELSE (IF locationIndex[i].metaphone = code
          THEN <<locationIndex[i].bucket>> ELSE <<>>)
         \o PhoneticOwners(code, i + 1)

\* _fuzzy_name_match
FuzzyNameMatch(ns) ==
    LET byDistance ==
            Ordered({b \in BucketIds :
                WithinDistance(ns, buckets[b].normalized_name)})
        metaphone == MetaphoneSimple(ns)
    IN  byDistance \o TrigramOwners(ns, 1)
        \o (IF metaphone # <<>> THEN PhoneticOwners(metaphone, 1) ELSE <<>>)

\* The queries _fuzzy_name_match sends to the store.
FuzzyReads(ns) == IF MetaphoneSimple(ns) # <<>> THEN 3 ELSE 2

\* A list returned as it was accumulated.
KeepAll(s) == s

\* _deduplicate_buckets
RECURSIVE Deduplicate(_)
Deduplicate(s) ==
    IF s = <<>> THEN <<>>
    ELSE LET front == Deduplicate(SubSeq(s, 1, Len(s) - 1))
             last  == s[Len(s)]
         IN  IF InSeq(last, front) THEN front ELSE Append(front, last)

\* if not search_term: return []
NeverEmpty(search_term) == FALSE

EmptyTerm(search_term) == search_term = <<>>

\* A cascade without the two early returns: all layers always run.
NoEarlyExit(search_term, lat, lng, min_results) ==
    IF EmptyTerm(search_term)
    THEN [result |-> <<>>, layers |-> {}, reads |-> 0]
    ELSE
      LET ns == Normalize(search_term)
          spatial == lat # None /\ lng # None /\ ValidateCoords(lat, lng)
          l2 == IF spatial THEN SpatialNameMatch(ns, lat, lng) ELSE <<>>
      IN  [result |-> Deduplicate(ExactNameMatch(ns) \o l2
                                    \o FuzzyNameMatch(ns)),
           layers |-> IF spatial THEN {1, 2, 3} ELSE {1, 3},
           reads |-> 1 + (IF spatial THEN 1 ELSE 0) + FuzzyReads(ns)]

\* find_matching_buckets: the list returned, the layers run and the number
\* of queries sent to the store.
FindMatchingBuckets(search_term, lat, lng, min_results) ==
    IF EmptyTerm(search_term)
    THEN [result |-> <<>>, layers |-> {}, reads |-> 0]
    ELSE
      LET ns == Normalize(search_term)
          l1 == ExactNameMatch(ns)
      IN  IF Len(l1) >= min_results
          THEN [result |-> Deduplicate(l1), layers |-> {1}, reads |-> 1]
          ELSE
            LET spatial == lat # None /\ lng # None /\ ValidateCoords(lat, lng)
                l2 == IF spatial THEN SpatialNameMatch(ns, lat, lng) ELSE <<>>
                n2 == IF spatial THEN 1 ELSE 0
            IN  IF spatial /\ Len(l1) + Len(l2) >= min_results
                THEN [result |-> Deduplicate(l1 \o l2), layers |-> {1, 2},
                      reads |-> 2]
                ELSE [result |-> Deduplicate(l1 \o l2 \o FuzzyNameMatch(ns)),
                      layers |-> IF spatial THEN {1, 2, 3} ELSE {1, 3},
                      reads |-> 1 + n2 + FuzzyReads(ns)]

(***************************************************************************)
(* Queries                                                                 *)
(***************************************************************************)
QSangotedo == <<"s","a","n","g","o","t","e","d","o">>

QSANGOTEDO == <<"S","A","N","G","O","T","E","D","O">>

QSanGoTedo == <<"S","a","n","G","o","T","e","d","o">>

Queries == {<<>>, QSangotedo, QSANGOTEDO, QSanGoTedo}

\* The three members of the convergence case.
MatchNames == {Sangotedo, SangotedoAjah, SangotedoLagos}

\* Member coordinates of the matching specification: two in one cell, two
\* cells adjacent to it and to each other, and a cell three steps away.
MatchCoords == { <<6, 4>>, <<7, 5>>, <<8, 4>>, <<6, 6>>, <<12, 4>> }

\* Query coordinates: none, or one of the members' coordinates.
QueryCoords == { <<None, None>>, <<6, 4>>, <<8, 4>>, <<12, 4>> }

DEFAULT_MIN_RESULTS == 5

MinResults == {0, 1, DEFAULT_MIN_RESULTS}

\* LocationMatcher.find_matching_buckets on the store as it is, with a term,
\* a coordinate and a min_results of the given sets.
SearchWith(queries, coords, mins) ==
    /\ AllIdle
    /\ search = NoSearch
    /\ \E q \in queries, c \in coords, mr \in mins :
          search' = [done |-> TRUE, term |-> q, lat |-> c[1], lng |-> c[2],
                     min_results |-> mr,
                     out |-> FindMatchingBuckets(q, c[1], c[2], mr)]
    /\ UNCHANGED <<buckets, locationIndex, properties, pc, req, obj, oldObj,
                   calls, errors, counterLog, underflow, served, stats>>

Search == SearchWith(Queries, QueryCoords, MinResults)

(***************************************************************************)
(* BucketService.get_bucket_stats                                          *)
(***************************************************************************)
\* The stored members that reference bucket b (related name 'properties').
PropertiesOf(b) ==
    {m \in 1..Len(properties) : Exists(m) /\ properties[m].bucket = b}

\* The rows of geo_buckets LEFT OUTER JOIN properties that come from bucket
\* b: one per member, or one with no member.
JoinRows(b) ==
    IF PropertiesOf(b) = {} THEN 1 ELSE Cardinality(PropertiesOf(b))

\* The sum of F(b) over the buckets 1..n.
RECURSIVE SumMembers(_)
SumMembers(n) ==
    IF n = 0 THEN 0 ELSE Cardinality(PropertiesOf(n)) + SumMembers(n - 1)

RECURSIVE SumJoinRows(_)
SumJoinRows(n) ==
    IF n = 0 THEN 0 ELSE JoinRows(n) + SumJoinRows(n - 1)

\* The sum of property_count over the joined rows.
RECURSIVE SumJoinCounts(_)
SumJoinCounts(n) ==
    IF n = 0 THEN 0
    ELSE buckets[n].property_count * JoinRows(n) + SumJoinCounts(n - 1)

\* round(num / den, 2), in hundredths.
RoundHundredths(num, den) == (200 * num + den) \div (2 * den)

\* get_bucket_stats: one aggregate query over the buckets joined with
\* their members, and two counts.  The average is in hundredths.
GetBucketStats ==
    LET total_buckets == Len(buckets)
        counts == {buckets[b].property_count : b \in BucketIds}
        with == Cardinality({b \in BucketIds : buckets[b].property_count > 0})
    IN  IF total_buckets = 0
        THEN [total_buckets |-> 0, total_properties |-> 0,
              avg_properties_per_bucket |-> 0,
              max_properties_in_bucket |-> 0,
              min_properties_in_bucket |-> 0,
              buckets_with_properties |-> 0, empty_buckets |-> 0]
        ELSE [total_buckets |-> total_buckets,
              total_properties |-> SumMembers(total_buckets),
              avg_properties_per_bucket |->
                  RoundHundredths(SumJoinCounts(total_buckets),
                                  SumJoinRows(total_buckets)),
              max_properties_in_bucket |->
                  CHOOSE c \in counts : \A d \in counts : d <= c,
              min_properties_in_bucket |->
                  CHOOSE c \in counts : \A d \in counts : c <= d,
              buckets_with_properties |-> with,
              empty_buckets |-> total_buckets - with]

\* A get_bucket_stats call on the store as it is.
Stats ==
    /\ AllIdle
    /\ stats = NoStats
    /\ stats' = [done |-> TRUE, out |-> GetBucketStats]
    /\ UNCHANGED <<buckets, locationIndex, properties, pc, req, obj, oldObj,
                   calls, errors, counterLog, underflow, search, served>>

(***************************************************************************)
(* Specifications                                                          *)
(***************************************************************************)
Accept == served < MaxRequests /\ served' = served + 1

CreateReq(w) == Accept /\ StartCreate(w, Names, ConcCoords)

DeleteReq(w) == Accept /\ StartDelete(w)

\* Requests served concurrently: member creations through the serializer
\* (find_or_create_bucket, then Property.objects.create) and deletions.
Next ==
    \E w \in Workers :
        \/ CreateReq(w)
        \/ DeleteReq(w)
        \/ Lookup(w)
        \/ AddVariant(w)
        \/ CreateBucket(w)
        \/ IndexExists(w)
        \/ IndexCreate(w)
        \/ PropInsert(w)
        \/ Incr(w)
        \/ Decr(w)
        \/ PropDelete(w)

Spec == Init /\ [][Next]_vars

\* In the sequential specifications an operation starts when none runs.
Turn == AllIdle /\ UNCHANGED served

SeqAssign(w) == Turn /\ StartAssign(w, SeqNames, Coords)

SeqSaveNew(w) == Turn /\ StartSaveNew(w, MemberNames, MemberCoords)

SeqSave(w) == Turn /\ StartSave(w)

SeqDelete(w) == Turn /\ StartDelete(w)

\* One operation at a time: assignments and the member operations of
\* Property.save and Property.delete.
SeqNext ==
    \E w \in Workers :
        \/ SeqAssign(w)
        \/ SeqSaveNew(w)
        \/ SeqSave(w)
        \/ SeqDelete(w)
        \/ Lookup(w)
        \/ AddVariant(w)
        \/ CreateBucket(w)
        \/ IndexExists(w)
        \/ IndexCreate(w)
        \/ PropInsert(w)
        \/ Incr(w)
        \/ ReadOld(w)
        \/ PropUpdate(w)
        \/ GetOld(w)
        \/ DecrOld(w)
        \/ Decr(w)
        \/ PropDelete(w)

SeqSpec == Init /\ [][SeqNext]_vars

Ingested(n) ==
    \/ \E m \in 1..Len(properties) : properties[m].location_name = n
    \/ \E v \in Workers : req[v].kind = "create" /\ req[v].name = n

\* Each of the three members is created once, through the serializer.
Ingest(w) ==
    /\ Turn
    /\ \E n \in MatchNames : ~Ingested(n) /\ StartCreate(w, {n}, MatchCoords)

MatchNext ==
    \/ \E w \in Workers :
          \/ Ingest(w)
          \/ Lookup(w)
          \/ AddVariant(w)
          \/ CreateBucket(w)
          \/ IndexExists(w)
          \/ IndexCreate(w)
          \/ PropInsert(w)
          \/ Incr(w)
    \/ Search

MatchSpec == Init /\ [][MatchNext]_vars

\* The cascade specification: members with related and unrelated names, in
\* a cell, a cell next to it, a cell two steps away and a cell outside the
\* region of _validate_coords; terms with typing errors and a foreign term.
CascadeNames == {Ajah, SangotedoAjah, Lekki}

CascadeCoords == { <<6, 4>>, <<8, 4>>, <<10, 4>>, <<2, 4>> }

QAjah == <<"a","j","a","h">>

QAjsh == <<"a","j","s","h">>

QAja == <<"a","j","a">>

QAj == <<"a","j">>

QXyz == <<"x","y","z">>

CascadeQueries == {QAjah, QAjsh, QAja, QAj, QXyz}

\* Query coordinates: none, in the region, outside it by the latitude or by
\* the longitude, and only one of the two given.
CascadeQueryCoords ==
    { <<None, None>>, <<6, 4>>, <<2, 4>>, <<6, 16>>, <<None, 4>>, <<6, None>> }

CascadeMins == {1, 2, DEFAULT_MIN_RESULTS}

CascadeIngest(w) ==
    /\ Turn
    /\ \E n \in CascadeNames :
          ~Ingested(n) /\ StartCreate(w, {n}, CascadeCoords)

CascadeSearch == SearchWith(CascadeQueries, CascadeQueryCoords, CascadeMins)

CascadeNext ==
    \/ \E w \in Workers :
          \/ CascadeIngest(w)
          \/ Lookup(w)
          \/ AddVariant(w)
          \/ CreateBucket(w)
          \/ IndexExists(w)
          \/ IndexCreate(w)
          \/ PropInsert(w)
          \/ Incr(w)
    \/ CascadeSearch

CascadeSpec == Init /\ [][CascadeNext]_vars

\* The ingestion specification: members created and updated through the
\* serializer, one request at a time, with coordinates inside and outside
\* the ranges of PropertySerializer.validate.
IngestNames == {Ajah}

IngestCoords == { <<6, 4>>, <<8, 4>>, <<91, 4>>, <<6, -181>> }

IngestCreate(w) ==
    /\ Turn
    /\ Len(properties) < MaxMembers
    /\ \E c \in IngestCoords :
          ValidLatLng(c[1], c[2]) /\ StartCreate(w, IngestNames, {c})

IngestUpdate(w) ==
    /\ Turn
    /\ \E c \in IngestCoords :
          ValidLatLng(c[1], c[2]) /\ StartUpdate(w, IngestNames, {c})

IngestInvalid == AllIdle /\ Invalid(IngestCoords)

IngestNext ==
    \/ \E w \in Workers :
          \/ IngestCreate(w)
          \/ IngestUpdate(w)
          \/ Lookup(w)
          \/ AddVariant(w)
          \/ CreateBucket(w)
          \/ IndexExists(w)
          \/ IndexCreate(w)
          \/ PropInsert(w)
          \/ Incr(w)
          \/ ReadOld(w)
          \/ PropUpdate(w)
          \/ GetOld(w)
          \/ DecrOld(w)
    \/ IngestInvalid

IngestSpec == Init /\ [][IngestNext]_vars

\* The statistics specification: up to StatsMembers members created through
\* the serializer in three cells, then one get_bucket_stats call.
StatsMembers == 6

StatsCoords == { <<6, 4>>, <<8, 4>>, <<12, 4>> }

StatsNames == {Ajah}

StatsIngest(w) ==
    /\ Turn
    /\ stats = NoStats
    /\ Len(properties) < StatsMembers
    /\ StartCreate(w, StatsNames, StatsCoords)

StatsNext ==
    \/ \E w \in Workers :
          \/ StatsIngest(w)
          \/ Lookup(w)
          \/ AddVariant(w)
          \/ CreateBucket(w)
          \/ IndexExists(w)
          \/ IndexCreate(w)
          \/ PropInsert(w)
          \/ Incr(w)
    \/ Stats

StatsSpec == Init /\ [][StatsNext]_vars

\* The normalization specification: one find_or_create_bucket call on the
\* empty store with a raw name made of up to MaxWords words, which stores
\* normalize(raw name) in the bucket and in the index entry.
MaxWords == 3

NormWords ==
    { <<"a">>, <<"s","t">>, <<"r","d">>, <<"L","a","g","o","s">>,
      <<"b","e","s","t">>, <<"!">> }

AStStB == <<"a"," ","s","t"," ","s","t"," ","b">>

NormNames ==
    { Join(ws) : ws \in UNION { [1..n -> NormWords] : n \in 1..MaxWords } }
        \cup {AStStB, <<" ">>}

NormCoords == { <<6, 4>> }

NormAssign(w) ==
    /\ Turn
    /\ buckets = <<>>
    /\ StartAssign(w, NormNames, NormCoords)

NormNext ==
    \E w \in Workers :
        \/ NormAssign(w)
        \/ Lookup(w)
        \/ CreateBucket(w)
        \/ IndexExists(w)
        \/ IndexCreate(w)

NormSpec == Init /\ [][NormNext]_vars

\* The short-result specification: members whose names are one edit apart,
\* and a member with a two-letter name, in two cells far from each other;
\* a term that equals one name, and a term of punctuation only.
Aja == <<"A","j","a">>

Vi == <<"V","i">>

QBang == <<"!","!">>

EdgeNames == {Ajah, Aja, Vi}

EdgeCoords == { <<6, 4>>, <<12, 4>> }

EdgeQueries == {QAjah, QBang}

EdgeQueryCoords == { <<None, None>>, <<6, 4>> }

EdgeMins == {2, DEFAULT_MIN_RESULTS}

EdgeIngest(w) ==
    /\ Turn
    /\ \E n \in EdgeNames : ~Ingested(n) /\ StartCreate(w, {n}, EdgeCoords)

EdgeSearch == SearchWith(EdgeQueries, EdgeQueryCoords, EdgeMins)

EdgeNext ==
    \/ \E w \in Workers :
          \/ EdgeIngest(w)
          \/ Lookup(w)
          \/ AddVariant(w)
          \/ CreateBucket(w)
          \/ IndexExists(w)
          \/ IndexCreate(w)
          \/ PropInsert(w)
          \/ Incr(w)
    \/ EdgeSearch

EdgeSpec == Init /\ [][EdgeNext]_vars

\* The renaming specification: members created and updated through the
\* serializer, one request at a time; an update carries coordinates and a
\* name, or a name only.
RenameNames == {Ajah, Lekki}

RenameCoords == { <<6, 4>>, <<8, 4>> }

RenameCreate(w) ==
    /\ Turn
    /\ Len(properties) < MaxMembers
    /\ StartCreate(w, RenameNames, RenameCoords)

RenameUpdate(w) == Turn /\ StartUpdate(w, RenameNames, RenameCoords)

Rename(w) == Turn /\ StartRename(w, RenameNames)

RenameNext ==
    \E w \in Workers :
        \/ RenameCreate(w)
        \/ RenameUpdate(w)
        \/ Rename(w)
        \/ Lookup(w)
        \/ AddVariant(w)
        \/ CreateBucket(w)
        \/ IndexExists(w)
        \/ IndexCreate(w)
        \/ PropInsert(w)
        \/ Incr(w)
        \/ ReadOld(w)
        \/ PropUpdate(w)
        \/ GetOld(w)
        \/ DecrOld(w)

RenameSpec == Init /\ [][RenameNext]_vars

(***************************************************************************)
(* Properties                                                              *)
(***************************************************************************)
Count(x, s) == Cardinality({i \in 1..Len(s) : s[i] = x})

MembersOf(b) ==
    {m \in 1..Len(properties) : Exists(m) /\ properties[m].bucket = b}

ConflictOn(table) == [error |-> "IntegrityError", table |-> table] \in errors

\* C1: in every reachable state, under any interleaving of concurrent
\* find_or_create_bucket calls, no two GeoBucket rows have the same h3_index.
C1_OneBucketPerCell ==
    \A a \in BucketIds, b \in BucketIds :
        buckets[a].h3_index = buckets[b].h3_index => a = b

\* Two concurrent calls raced to create the bucket of one cell, and another
\* cell has its bucket too.
C1_Witness ==
    /\ ConflictOn("geo_buckets")
    /\ Len(buckets) = 2

\* C2: a uniqueness conflict never reaches the caller of
\* find_or_create_bucket: no call ends in an IntegrityError.
C2_ConflictNeverSurfaced == errors = {}

\* C3: calls of find_or_create_bucket made one after another with the same
\* cell and raw name return the same bucket, and the raw name is in that
\* bucket's variant_names exactly once.
C3_AssignIdempotent ==
    \A c \in calls :
        /\ \A d \in calls :
              (d.h3 = c.h3 /\ d.name = c.name) => d.bucket = c.bucket
        /\ Count(c.name, buckets[c.bucket].variant_names) = 1

\* C4: once the members "Sangotedo", "Sangotedo, Ajah" and "sangotedo lagos"
\* are stored (in any order, in the same cell or in different cells), a
\* search for "sangotedo" with the default min_results, with or without a
\* coordinate, returns buckets that hold all three members.
C4_Convergence ==
    (/\ search.done
     /\ search.term = QSangotedo
     /\ search.min_results = DEFAULT_MIN_RESULTS
     /\ Len(properties) = 3)
    => \A m \in 1..Len(properties) :
          InSeq(properties[m].bucket, search.out.result)

\* The three members lie in three different cells and the search, without
\* a coordinate, found their three buckets.
C4_Witness ==
    /\ search.done
    /\ search.term = QSangotedo
    /\ search.min_results = DEFAULT_MIN_RESULTS
    /\ search.lat = None
    /\ Len(properties) = 3
    /\ Len(buckets) = 3
    /\ Len(search.out.result) = 3

\* C5: after any series of member operations made one at a time through
\* Property.save and Property.delete, every bucket's property_count is the
\* number of stored members that reference the bucket.
C5_CountMatchesMembers ==
    AllIdle =>
        \A b \in BucketIds :
            buckets[b].property_count = Cardinality(MembersOf(b))

\* A member was deleted, another is stored in the second bucket, and the
\* first bucket is empty again.
C5_Witness ==
    /\ AllIdle
    /\ Len(buckets) = 2
    /\ \E m \in 1..Len(properties) : properties[m].deleted
    /\ MembersOf(2) # {}
    /\ buckets[1].property_count = 0
    /\ buckets[2].property_count = 1

\* C6: property_count is never negative.
C6_CountNeverNegative ==
    \A b \in BucketIds : buckets[b].property_count >= 0

\* C7: when all counter calls have completed and no decrement was called at
\* a true count of 0, property_count is the number of increments minus the
\* number of decrements.
C7_NoLostUpdate ==
    (AllIdle /\ ~underflow) =>
        \A b \in BucketIds : buckets[b].property_count = counterLog[b]

\* C8: once all concurrent find_or_create_bucket calls have completed, the
\* raw name of every call that returned is in variant_names of its bucket.
C8_VariantsConverge ==
    AllIdle =>
        \A c \in calls : InSeq(c.name, buckets[c.bucket].variant_names)

\* C9: a search with the empty term returns the empty list, runs no layer
\* and sends no query to the store, whatever the coordinates and min_results.
C9_EmptyQuery ==
    (search.done /\ search.term = <<>>) =>
        /\ search.out.result = <<>>
        /\ search.out.layers = {}
        /\ search.out.reads = 0

\* The empty term was searched with a coordinate on a store with buckets.
C9_Witness ==
    /\ search.done
    /\ search.term = <<>>
    /\ search.lat # None
    /\ Len(buckets) >= 2

\* Two strings that differ only in the case of their letters.
DifferOnlyInCase(a, b) ==
    /\ Len(a) = Len(b)
    /\ \A i \in 1..Len(a) :
          \/ a[i] = b[i]
          \/ \E k \in 1..26 : {a[i], b[i]} = {LowerAlpha[k], UpperAlpha[k]}

\* C10: on any store, with any coordinates and min_results, two searches
\* whose terms differ only in letter case return the same set of buckets.
C10_CaseInsensitive ==
    search.done =>
        \A q \in Queries :
            DifferOnlyInCase(q, search.term) =>
                Range(FindMatchingBuckets(q, search.lat, search.lng,
                                          search.min_results).result)
                    = Range(search.out.result)

\* An upper-case search found buckets.
C10_Witness ==
    /\ search.done
    /\ search.term = QSANGOTEDO
    /\ search.out.result # <<>>

\* The position of the first occurrence of x in s.
FirstIndex(x, s) ==
    CHOOSE i \in 1..Len(s) : s[i] = x /\ \A j \in 1..(i - 1) : s[j] # x

\* The buckets whose normalized_name equals the normalized term, letter case
\* aside.
ExactBuckets(term) ==
    {b \in BucketIds :
        DifferOnlyInCase(buckets[b].normalized_name, Normalize(term))}

\* C11: for every non-empty term, whatever the coordinates and min_results,
\* every bucket whose normalized_name equals the normalized term (case
\* aside) is in the result, before every bucket that only a later layer
\* contributed.
C11_LayerOneComplete ==
    (search.done /\ search.term # <<>>) =>
        LET exact == ExactBuckets(search.term)
            r     == search.out.result
        IN  /\ \A b \in exact : InSeq(b, r)
            /\ \A i \in 1..Len(r), j \in 1..Len(r) :
                  (r[j] \in exact /\ r[i] \notin exact) => j < i

\* A search with a coordinate returned an exactly named bucket first and a
\* bucket of a later layer after it.
C11_Witness ==
    /\ search.done
    /\ search.term = QSangotedo
    /\ search.lat # None
    /\ Len(search.out.result) >= 2
    /\ search.out.result[1] \in ExactBuckets(search.term)
    /\ search.out.result[Len(search.out.result)] \notin ExactBuckets(search.term)

\* The entries that layers 1 and 2 put into the list of the last search,
\* before deduplication.
AccumulatedBeforeFuzzy ==
    LET ns == Normalize(search.term)
    IN  Len(ExactNameMatch(ns))
        + (IF 2 \in search.out.layers
           THEN Len(SpatialNameMatch(ns, search.lat, search.lng)) ELSE 0)

\* C12: a bucket whose normalized_name is within Levenshtein distance 2 of
\* the normalized term is in the result whenever layers 1 and 2 together
\* accumulated fewer than min_results entries.
C12_TypoTolerance ==
    (/\ search.done
     /\ search.term # <<>>
     /\ AccumulatedBeforeFuzzy < search.min_results)
    => \A b \in BucketIds :
          Levenshtein(Normalize(search.term), buckets[b].normalized_name) <= 2
              => InSeq(b, search.out.result)

\* The bucket named "ajah" was found by the term "aj", two edits away.
C12_Witness ==
    /\ search.done
    /\ search.term = QAj
    /\ \E b \in BucketIds :
          /\ buckets[b].normalized_name = QAjah
          /\ InSeq(b, search.out.result)

\* Both coordinates are given and lie in the region 4..14 by 3..15.
InRegion(lat, lng) ==
    /\ lat # None /\ lng # None
    /\ lat \in 4..14
    /\ lng \in 3..15

\* C13: a search with a coordinate outside the region, or with only one of
\* lat and lng, returns the same list as the search without coordinates.
C13_OutOfRegionAsAbsent ==
    (search.done /\ ~InRegion(search.lat, search.lng)) =>
        search.out.result
            = FindMatchingBuckets(search.term, None, None,
                                  search.min_results).result

\* A search at a coordinate outside the region found a bucket elsewhere and
\* not the bucket of the coordinate's own cell, whose variant "Sangotedo,
\* Ajah" contains the term.
C13_Witness ==
    /\ search.done
    /\ search.term = QAjah
    /\ search.lat = 2 /\ search.lng = 4
    /\ search.out.result # <<>>
    /\ \E b \in BucketIds :
          /\ buckets[b].h3_index = CellOf(2, 4)
          /\ buckets[b].normalized_name = Normalize(SangotedoAjah)
          /\ ~InSeq(b, search.out.result)

\* The list accumulated by the layers that ran in the last search: layer 1,
\* then layer 2, then layer 3 (by distance, by trigram, by phonetic code).
Accumulated ==
    LET ns == Normalize(search.term)
    IN  (IF 1 \in search.out.layers THEN ExactNameMatch(ns) ELSE <<>>)
        \o (IF 2 \in search.out.layers
            THEN SpatialNameMatch(ns, search.lat, search.lng) ELSE <<>>)
        \o (IF 3 \in search.out.layers THEN FuzzyNameMatch(ns) ELSE <<>>)

\* C14: the result holds no bucket twice, holds every accumulated bucket,
\* and lists the buckets in the order of their first appearance in the
\* accumulated list.
C14_DedupFirstSeen ==
    search.done =>
        LET r == search.out.result
        IN  /\ \A i \in 1..Len(r), j \in 1..Len(r) : r[i] = r[j] => i = j
            /\ Range(r) = Range(Accumulated)
            /\ \A i \in 1..Len(r), j \in 1..Len(r) :
                  i < j => FirstIndex(r[i], Accumulated)
                              < FirstIndex(r[j], Accumulated)

\* Several layers found the same bucket, and the result holds two buckets.
C14_Witness ==
    /\ search.done
    /\ Len(search.out.result) >= 2
    /\ search.out.layers = {1, 2, 3}
    /\ Len(Accumulated) > Len(search.out.result) + 1

Abs(x) == IF x < 0 THEN -x ELSE x

\* The number of steps between two cells of the hexagonal grid.
HexDistance(c, d) ==
    LET dq == c[1] - d[1]
        dr == c[2] - d[2]
        m  == IF Abs(dq) > Abs(dr) THEN Abs(dq) ELSE Abs(dr)
    IN  IF Abs(dq + dr) > m THEN Abs(dq + dr) ELSE m

\* The name test of layer 2: equal, containing, contained, or similar by at
\* least 0.8.
NameTest(a, b) ==
    \/ a = b
    \/ Contains(b, a)
    \/ Contains(a, b)
    \/ SimilarityAtLeast(a, b, 4, 5)

\* Bucket b satisfies a layer predicate for the last search.
SatisfiesLayer(b) ==
    LET ns == Normalize(search.term)
        owned == {i \in 1..Len(locationIndex) : locationIndex[i].bucket = b}
    IN  \/ DifferOnlyInCase(buckets[b].normalized_name, ns)
        \/ /\ InRegion(search.lat, search.lng)
           /\ HexDistance(buckets[b].h3_index,
                          CellOf(search.lat, search.lng)) <= 1
           /\ \/ NameTest(ns, buckets[b].normalized_name)
              \/ \E k \in 1..Len(buckets[b].variant_names) :
                    NameTest(ns, Normalize(buckets[b].variant_names[k]))
        \/ Levenshtein(ns, buckets[b].normalized_name) <= 2
        \/ \E i \in owned :
              /\ Contains(LowerStr(locationIndex[i].normalized_name),
                          LowerStr(Prefix(ns, 3)))
              /\ SimilarityAtLeast(ns, locationIndex[i].normalized_name, 3, 5)
        \/ \E i \in owned : locationIndex[i].metaphone = MetaphoneSimple(ns)

InRange(lat, lng) ==
    /\ lat \in -90..90
    /\ lng \in -180..180

Rejected(lat, lng) ==
    [error |-> "ValidationError", lat |-> lat, lng |-> lng] \in errors

\* No request that runs create or update, and no stored member, has a
\* coordinate outside the ranges.
OnlyValidIngested ==
    /\ \A w \in Workers :
          req[w].kind \in {"create", "update"}
              => InRange(req[w].lat, req[w].lng)
    /\ \A m \in 1..Len(properties) :
          InRange(properties[m].lat, properties[m].lng)

\* C16: a creation or update through the serializer with lat outside
\* -90..90 or lng outside -180..180 fails with a validation error, and the
\* step that fails changes no bucket, no index entry and no member.
C16_InvalidCoordinateRejected ==
    /\ []OnlyValidIngested
    /\ [][errors' # errors
            => UNCHANGED <<buckets, locationIndex, properties>>]_vars

\* Requests with a latitude and with a longitude out of range were rejected
\* on a store that holds two members.
C16_Witness ==
    /\ Rejected(91, 4)
    /\ Rejected(6, -181)
    /\ Len(properties) = 2
    /\ Len(buckets) = 2
    /\ AllIdle

\* The sum of property_count over the buckets 1..n.
RECURSIVE SumCounts(_)
SumCounts(n) ==
    IF n = 0 THEN 0 ELSE buckets[n].property_count + SumCounts(n - 1)

\* Three buckets that hold 1, 2 and 3 members, with property_count 1, 2, 3.
OneTwoThree ==
    /\ Len(buckets) = 3
    /\ {buckets[b].property_count : b \in BucketIds} = {1, 2, 3}
    /\ \A b \in BucketIds :
          Cardinality(MembersOf(b)) = buckets[b].property_count

\* C17: get_bucket_stats on three buckets with 1, 2 and 3 members returns
\* 3 buckets, 6 members, average 2.00, maximum 3, minimum 1, 3 buckets with
\* members and 0 empty; on every store the average is the mean of
\* property_count over the buckets, and the buckets with members and the
\* empty buckets add up to the total.
C17_BucketStats ==
    (stats.done /\ Len(buckets) > 0) =>
        /\ OneTwoThree =>
              stats.out = [total_buckets |-> 3, total_properties |-> 6,
                           avg_properties_per_bucket |-> 200,
                           max_properties_in_bucket |-> 3,
                           min_properties_in_bucket |-> 1,
                           buckets_with_properties |-> 3,
                           empty_buckets |-> 0]
        /\ stats.out.avg_properties_per_bucket
              = RoundHundredths(SumCounts(Len(buckets)), Len(buckets))
        /\ stats.out.buckets_with_properties + stats.out.empty_buckets
              = stats.out.total_buckets

\* C18: normalize is idempotent: the normalized name that a call stored is
\* its own normalization.
C18_NormalizeIdempotent ==
    \A i \in 1..Len(locationIndex) :
        Normalize(locationIndex[i].normalized_name)
            = locationIndex[i].normalized_name

\* The words of the raw name after lower-casing, removal of special
\* characters and of the stoplist words, with the fallback to the first two
\* words.
KeptWords(raw) ==
    LET words == Split(CollapseSpaces(RemoveSpecial(Strip(LowerStr(raw)))))
        filtered == SelectSeq(words, NotSuffix)
    IN  IF filtered = <<>> THEN Prefix(words, 2) ELSE filtered

\* C19: a non-empty raw name never has the empty normalized name; when all
\* its words are stoplist words the normalized name is its first two words.
C19_NormalizeNeverEmpty ==
    \A i \in 1..Len(locationIndex) :
        LET raw == locationIndex[i].original_name
            words == Split(CollapseSpaces(RemoveSpecial(Strip(LowerStr(raw)))))
        IN  raw # <<>> =>
              /\ locationIndex[i].normalized_name # <<>>
              /\ SelectSeq(words, NotSuffix) = <<>>
                    => locationIndex[i].normalized_name
                          = Join(Prefix(words, 2))

\* The whole-word expansion of an abbreviation.
Expand(word) ==
    IF \E k \in 1..Len(REPLACEMENTS) : REPLACEMENTS[k][1] = word
    THEN REPLACEMENTS[CHOOSE k \in 1..Len(REPLACEMENTS) :
                          REPLACEMENTS[k][1] = word][2]
    ELSE word

\* C20: the normalized name is the kept words of the raw name, each word
\* that is str, rd, ave or st replaced by its expansion wherever it stands,
\* and every other word unchanged.
C20_WholeWordExpansion ==
    \A i \in 1..Len(locationIndex) :
        LET kept == KeptWords(locationIndex[i].original_name)
        IN  locationIndex[i].normalized_name
                = Join([k \in 1..Len(kept) |-> Expand(kept[k])])

\* The index entries with the given original name and owner.
EntriesOf(name, b) ==
    {i \in 1..Len(locationIndex) :
        /\ locationIndex[i].original_name = name
        /\ locationIndex[i].bucket = b}

\* The row that a find_or_create_bucket call of worker w has to create for
\* a cell without bucket.
ExpectedRow(w) ==
    LET h3 == CellOf(req[w].lat, req[w].lng)
    IN  [h3_index |-> h3,
         centroid |-> <<2 * h3[1] + 1, 2 * h3[2] + 1>>,
         normalized_name |-> Normalize(req[w].name),
         variant_names |-> <<req[w].name>>,
         property_count |-> 0]

\* A step of worker w adds a bucket.
Creates(w) == pc[w] = "create_bucket" /\ Len(buckets') = Len(buckets) + 1

\* C21: a find_or_create_bucket call for a cell without bucket creates the
\* bucket of that cell with the centre of the cell as centroid, the
\* normalized raw name, variant_names = [raw name] and property_count 0,
\* and once the call has returned there is exactly one index entry (raw
\* name, bucket).
C21_CreationDetails ==
    /\ [][\A w \in Workers :
            Creates(w) => buckets'[Len(buckets')] = ExpectedRow(w)]_vars
    /\ [](\A c \in calls : Cardinality(EntriesOf(c.name, c.bucket)) = 1)


\* C22: under every interleaving of find_or_create_bucket calls the index
\* holds at most one entry per (original_name, bucket), and no step
\* changes or removes an entry that exists.
C22_IndexUniqueImmutable ==
    /\ [](\A i, j \in 1..Len(locationIndex) :
            (/\ locationIndex[i].original_name = locationIndex[j].original_name
             /\ locationIndex[i].bucket = locationIndex[j].bucket) => i = j)
    /\ [][/\ Len(locationIndex') >= Len(locationIndex)
          /\ \A i \in 1..Len(locationIndex) :
                locationIndex'[i] = locationIndex[i]]_vars

\* Two calls raced on one index entry (the store refused the second
\* insert), and the index holds entries of two names.
C22_Witness ==
    /\ ConflictOn("location_index")
    /\ \E i, j \in 1..Len(locationIndex) :
          locationIndex[i].original_name # locationIndex[j].original_name


\* C23: every bucket of the store has a non-empty variant_names list,
\* whatever raw name it was created with (the empty string included), and
\* no string occurs twice in variant_names.
C23_VariantsNonEmptyDistinct ==
    \A b \in BucketIds :
        /\ buckets[b].variant_names # <<>>
        /\ \A i, j \in 1..Len(buckets[b].variant_names) :
              buckets[b].variant_names[i] = buckets[b].variant_names[j] => i = j


\* The buckets that satisfy the predicate of layer 2 for the last search:
\* none when the coordinates are absent or outside the region.
SpatialBuckets ==
    LET ns == Normalize(search.term)
    IN  {b \in BucketIds :
           /\ InRegion(search.lat, search.lng)
           /\ HexDistance(buckets[b].h3_index,
                          CellOf(search.lat, search.lng)) <= 1
           /\ \/ NameTest(ns, buckets[b].normalized_name)
              \/ \E k \in 1..Len(buckets[b].variant_names) :
                    NameTest(ns, Normalize(buckets[b].variant_names[k]))}

\* C24: when layer 1 alone yields at least min_results buckets the result
\* is exactly the buckets of layer 1 and only layer 1 has run; when layers
\* 1 and 2 together yield at least min_results, layer 3 has not run; with
\* min_results <= 0 only layer 1 runs.
C24_EarlyExit ==
    (search.done /\ search.term # <<>>) =>
        LET n1 == Cardinality(ExactBuckets(search.term))
            n2 == Cardinality(SpatialBuckets)
            r  == search.out.result
        IN  /\ n1 >= search.min_results =>
                /\ search.out.layers = {1}
                /\ Range(r) = ExactBuckets(search.term)
                /\ Len(r) = n1
            /\ n1 + n2 >= search.min_results => 3 \notin search.out.layers
            /\ search.min_results <= 0 => search.out.layers = {1}

\* A search with min_results = 5 stopped after layer 2: layer 1 alone gave
\* fewer than 5 buckets, layers 1 and 2 together gave 5.
C24_Witness ==
    /\ search.done
    /\ search.term # <<>>
    /\ search.min_results = DEFAULT_MIN_RESULTS
    /\ search.out.layers = {1, 2}
    /\ Cardinality(ExactBuckets(search.term)) < DEFAULT_MIN_RESULTS
    /\ Cardinality(ExactBuckets(search.term)) + Cardinality(SpatialBuckets)
          >= DEFAULT_MIN_RESULTS


\* Bucket b satisfies one of the three predicates of layer 3 for the last
\* search: edit distance, trigram prefix with similarity, phonetic code.
SatisfiesFuzzy(b) ==
    LET ns == Normalize(search.term)
        owned == {i \in 1..Len(locationIndex) : locationIndex[i].bucket = b}
    IN  \/ Levenshtein(ns, buckets[b].normalized_name) <= 2
        \/ \E i \in owned :
              /\ Contains(LowerStr(locationIndex[i].normalized_name),
                          LowerStr(Prefix(ns, 3)))
              /\ SimilarityAtLeast(ns, locationIndex[i].normalized_name, 3, 5)
        \/ \E i \in owned : locationIndex[i].metaphone = MetaphoneSimple(ns)

\* C25: whenever a search with a non-empty term returns fewer than
\* min_results distinct buckets, layer 3 has run, and every bucket that
\* satisfies a predicate of layer 3 is in the result.
C25_FuzzyWhenShort ==
    (/\ search.done
     /\ search.term # <<>>
     /\ Cardinality(Range(search.out.result)) < search.min_results)
    => /\ 3 \in search.out.layers
       /\ \A b \in BucketIds : SatisfiesFuzzy(b) => InSeq(b, search.out.result)

\* C27: a search whose term is not empty but normalizes to the empty
\* string returns the empty list, whatever the store holds.
C27_EmptyNormalizedTerm ==
    (/\ search.done
     /\ search.term # <<>>
     /\ Normalize(search.term) = <<>>)
    => search.out.result = <<>>


\* C26: a find_or_create_bucket call on a cell that has a bucket leaves the
\* number of buckets and every other bucket as they were, and changes
\* nothing of its bucket except that it may append the raw name to
\* variant_names: h3_index, centroid, normalized_name and property_count
\* stay, and so does every variant that was in the list.
C26_AssignFrame ==
    [][\A w \in Workers :
          /\ (pc[w] = "add_variant" /\ pc'[w] # pc[w]) =>
                /\ Len(buckets') = Len(buckets)
                /\ \A b \in BucketIds :
                      \/ buckets'[b] = buckets[b]
                      \/ /\ b = obj[w].id
                         /\ buckets'[b] =
                              [buckets[b] EXCEPT
                                 !.variant_names = Append(@, req[w].name)]
          /\ (pc[w] \in {"lookup", "index_exists", "index_create"}
                /\ pc'[w] # pc[w]) => buckets' = buckets]_vars


\* C28: once all concurrent member creations and deletions (two deletions
\* of one member included) have completed, property_count of every bucket
\* is the number of members that are not deleted and reference the bucket.
C28_ConcurrentCountsSettle ==
    AllIdle =>
        \A b \in BucketIds :
            buckets[b].property_count
                = Cardinality({m \in 1..Len(properties) :
                                 /\ ~properties[m].deleted
                                 /\ properties[m].bucket = b})


\* C29: after any sequence of member creations and updates through the
\* serializer, the location_name of every member that has a bucket is in
\* variant_names of that bucket.
C29_MemberNameIsVariant ==
    AllIdle =>
        \A m \in 1..Len(properties) :
            (Exists(m) /\ properties[m].bucket # 0) =>
                InSeq(properties[m].location_name,
                      buckets[properties[m].bucket].variant_names)


\* C30: once all find_or_create_bucket calls, in any interleaving, have
\* completed, every name in variant_names of a bucket has an index entry
\* with that original name and that bucket, whose normalized_name is the
\* normalized name and whose metaphone and trigrams are those of the
\* normalized name.
C30_VariantsIndexed ==
    AllIdle =>
        \A b \in BucketIds :
            \A k \in 1..Len(buckets[b].variant_names) :
                LET v == buckets[b].variant_names[k]
                IN  \E i \in 1..Len(locationIndex) :
                        /\ locationIndex[i].original_name = v
                        /\ locationIndex[i].bucket = b
                        /\ locationIndex[i].normalized_name = Normalize(v)
                        /\ locationIndex[i].metaphone
                              = MetaphoneSimple(Normalize(v))
                        /\ locationIndex[i].trigrams
                              = GenerateTrigrams(Normalize(v))

\* All calls have completed, two of them raced on one index entry, and a
\* bucket has two variants.
C30_Witness ==
    /\ AllIdle
    /\ ConflictOn("location_index")
    /\ \E b \in BucketIds : Len(buckets[b].variant_names) >= 2

=============================================================================
